---- MODULE Spec2Model ----
(***************************************************************************)
(* radiant-rs: the layer (core/layer.rs), its shared contents and the      *)
(* concurrent vertex buffer it appends to; the renderer (core/renderer.rs) *)
(* with its stack of render targets and its texture size buckets.          *)
(*                                                                         *)
(* Layers are handles (indexes into layers); the Arc<LayerContents> of a   *)
(* layer is an index into heap, so that clones alias one contents object.  *)
(* Every thread runs layer operations; an operation is a sequence of       *)
(* atomic steps (one atomic access, lock operation or vertex store each),  *)
(* and the steps of different threads interleave freely.                   *)
(***************************************************************************)
EXTENDS Integers, Naturals, Sequences, FiniteSets, TLC

VARIABLES LAYER_COUNTER, layers, origin, heap, pc, local, calls, hist,
          ctor, target, scopes, drawn, bucket

layer_vars == <<LAYER_COUNTER, layers, origin, heap, pc, local, calls, hist>>

\* the renderer: the constructor it came from, its stack of render targets,
\* the render_to / postprocess calls in progress (innermost last) and the
\* last drawing operation issued since the innermost of them changed
render_vars == <<ctor, target, scopes, drawn>>

vars == <<LAYER_COUNTER, layers, origin, heap, pc, local, calls, hist,
          ctor, target, scopes, drawn, bucket>>

---------------------------------------------------------------------------
(* Bounds of the model *)

\* worker threads of the concurrent specification
NumThreads == 2
\* operations each thread starts in the concurrent specification
MaxCalls == 2
\* operations the single thread starts in the sequential specification
MaxSeqOps == 4
\* layer handles (created layers and clones) in the sequential specification
MaxLayers == 3
\* context::INITIAL_CAPACITY, in sprites, scaled down so that growth happens
INITIAL_CAPACITY == 1
\* largest generation tag a write carries
MaxGeneration == 2
\* operations the single thread starts on the layer that is drawn, cleared
\* and drawn again
MaxDrawOps == 5
\* render_to / postprocess calls nested into each other
MaxScopes == 2
\* entries of the target stack (a panicking scope leaves its entry behind)
MaxTargets == 4
\* context::NUM_BUCKETS, scaled down so that the assertion of bucket_info
\* fails within the texture sizes drawn
NUM_BUCKETS == 4
\* texture sizes above the largest bucket
MaxOversize == 2

Threads == 1..NumThreads

---------------------------------------------------------------------------
(* Values *)

\* generation: Option<usize> of add_rect; None is NoGen
NoGen == 0 - 1
Generations == 0..MaxGeneration
GenArgs == {NoGen} \cup Generations

\* vertices one add_rect call maps: self.contents.vertex_data.map(4)
QuadVerticesShort == 4 - 1
QuadVertices == 4

Colors == {"WHITE", "RED"}
Matrices == {"viewport", "identity", "rotated"}
BlendModes == {"ALPHA", "ADD"}
Programs == {"None", "custom"}

\* the four corners in the order add_rect stores them (offsets 0, 1, 2, 3)
CornerOffset == << <<"x0", "y0">>, <<"x1", "y0">>, <<"x0", "y1">>, <<"x1", "y1">> >>
CornerUV == <<"top_left", "top_right", "bottom_left", "bottom_right">>

NoQuad == <<0, 0>>
\* a slot of the backing store nothing was ever written to
NoVertex == [quad |-> NoQuad, offset |-> <<"-", "-">>, texture_uv |-> "uninit"]

\* the vertex add_rect builds for corner i (0-based) of the call with input q
Vertex(q, i) == [quad |-> q, offset |-> CornerOffset[i + 1], texture_uv |-> CornerUV[i + 1]]

---------------------------------------------------------------------------
(* avec::AVec<T>: the concurrent append buffer (contract of the buffer)    *)
(* data is the backing store (slot i is data[i + 1]), len the logical      *)
(* length, cap the capacity; readers are the threads holding the lock      *)
(* shared (write views), writer the thread holding it exclusively.         *)

AVecNew(capacity) ==
    [data |-> [i \in 1..capacity |-> NoVertex], len |-> 0, cap |-> capacity,
     readers |-> {}, writer |-> 0]

AVecLen(v) == v.len

AVecCapacity(v) == v.cap

AVecFits(v, n) == v.len + n <= v.cap

\* a reservation needs the lock shared, and room
AVecCanMap(v, n) == v.writer = 0 /\ AVecFits(v, n)

\* reserve n slots at the logical length for thread t
AVecMap(v, n, t) == [v EXCEPT !.len = @ + n, !.readers = @ \cup {t}]

\* growth needs the lock exclusively
AVecCanGrow(v, n) == ~AVecFits(v, n) /\ v.readers = {} /\ v.writer = 0

RECURSIVE AVecGrownCapacity(_, _)
AVecGrownCapacity(capacity, need) ==
    IF need <= capacity THEN capacity ELSE AVecGrownCapacity(2 * capacity, need)

AVecGrow(v, n) ==
    LET newcap == AVecGrownCapacity(v.cap, v.len + n)
    IN  [v EXCEPT !.cap = newcap,
                  !.data = [i \in 1..newcap |-> IF i <= v.cap THEN v.data[i] ELSE NoVertex]]

\* map.set(i, x) of the write view that starts at pos
AVecSet(v, pos, i, x) == [v EXCEPT !.data[pos + i + 1] = x]

\* the write view is dropped
AVecUnmap(v, t) == [v EXCEPT !.readers = @ \ {t}]

\* a snapshot needs the lock exclusively
AVecCanGet(v) == v.readers = {} /\ v.writer = 0

AVecGet(v, t) == [v EXCEPT !.writer = t]

\* what the read view shows: the slots below the logical length
AVecView(v) == SubSeq(v.data, 1, v.len)

\* a read view whose drop leaves the lock held
AVecReleaseNot(v) == v

AVecRelease(v) == [v EXCEPT !.writer = 0]

\* a clear that keeps the logical length
AVecClearKeep(v) == v

\* a clear that frees the backing store down to one slot
AVecClearFree(v) == [v EXCEPT !.len = 0, !.cap = 1, !.data = <<NoVertex>>]

\* clear resets the logical length and keeps the backing store
AVecClear(v) == [v EXCEPT !.len = 0]

---------------------------------------------------------------------------
(* LayerContents and its atomics *)

LayerContents(id) ==
    [vertex_data |-> AVecNew(INITIAL_CAPACITY * 4), dirty |-> TRUE, generation |-> 0,
     layer_id |-> id]

\* Layer::set_dirty
set_dirty(c, value) == [c EXCEPT !.dirty = value]

\* Layer::set_generation without the exception for generation 0
set_generation_strict(c, generation) ==
    LET previous == c.generation
    IN  [contents |-> [c EXCEPT !.generation = generation],
         ok |-> previous = generation \/ previous = 0]

\* Layer::set_generation: swap, then compare
set_generation(c, generation) ==
    LET previous == c.generation
    IN  [contents |-> [c EXCEPT !.generation = generation],
         ok |-> previous = generation \/ generation = 0 \/ previous = 0]

\* Layer::undirty that reads the flag and leaves it
undirty_load(c) == [contents |-> c, was |-> c.dirty]

\* Layer::undirty: dirty.swap(false)
undirty(c) == [contents |-> [c EXCEPT !.dirty = FALSE], was |-> c.dirty]

---------------------------------------------------------------------------
(* Layer *)

Handles == 1..Len(layers)

Contents(h) == heap[layers[h].contents]

\* Layer::len that forgets the division
len_vertices(h) == AVecLen(Contents(h).vertex_data)

\* Layer::len
len(h) == AVecLen(Contents(h).vertex_data) \div 4

\* Layer::capacity
capacity(h) == AVecCapacity(Contents(h).vertex_data) \div 4

\* Layer::id
id(h) == Contents(h).layer_id

\* Layer::program
program(h) == layers[h].program

\* what a caller can observe of the shared contents of a layer
Observe(c) == [len |-> AVecLen(c.vertex_data), generation |-> c.generation, dirty |-> c.dirty]

---------------------------------------------------------------------------
(* Creating and cloning layers *)

\* Layer::create that reads LAYER_COUNTER without advancing it
create_load(lc, hp, prog) ==
    [layer |-> [view_matrix |-> "viewport", model_matrix |-> "identity",
                blend |-> "ALPHA", color |-> "WHITE",
                contents |-> Len(hp) + 1, program |-> prog],
     heap |-> Append(hp, LayerContents(1 + lc)),
     counter |-> lc]

\* Layer::create on the process state (counter lc, heap hp): the new layer,
\* the heap with its fresh contents, and the advanced LAYER_COUNTER
create(lc, hp, prog) ==
    [layer |-> [view_matrix |-> "viewport", model_matrix |-> "identity",
                blend |-> "ALPHA", color |-> "WHITE",
                contents |-> Len(hp) + 1, program |-> prog],
     heap |-> Append(hp, LayerContents(1 + lc)),
     counter |-> lc + 1]

\* Layer::create_clone that copies the contents instead of sharing them
create_clone_deep(l, hp, prog) ==
    [layer |-> [view_matrix |-> l.view_matrix, model_matrix |-> l.model_matrix,
                blend |-> l.blend, color |-> l.color,
                contents |-> Len(hp) + 1, program |-> prog],
     heap |-> Append(hp, hp[l.contents])]

\* Layer::create_clone of layer l: new cells holding copies, the same contents
create_clone(l, hp, prog) ==
    [layer |-> [view_matrix |-> l.view_matrix, model_matrix |-> l.model_matrix,
                blend |-> l.blend, color |-> l.color,
                contents |-> l.contents, program |-> prog],
     heap |-> hp]

\* a Clone::clone that hands the program of the source on to the clone
clone_keeping_program(l, hp) == create_clone(l, hp, l.program)

\* Clone::clone: self.create_clone(None)
clone(l, hp) == create_clone(l, hp, "None")

\* Layer::clone_with_program: self.create_clone(Some(program))
clone_with_program(l, hp, prog) == create_clone(l, hp, prog)

---------------------------------------------------------------------------
(* History kept per contents object, for stating the properties *)

NoHist ==
    [accepted |-> 0, rejected |-> 0, nclears |-> 0, resv |-> {}, returned |-> {},
     undirtyCalls |-> 0, undirtyTrue |-> 0, tags |-> {}, fresh |-> {}]

HistFor(hs, n) == [c \in 1..n |-> IF c <= Len(hs) THEN hs[c] ELSE NoHist]

\* a store of true to the dirty flag starts a new round of undirty calls
HistDirtied(x) == [x EXCEPT !.undirtyCalls = 0, !.undirtyTrue = 0]

HistAccepted(x) == [x EXCEPT !.accepted = @ + 1]

\* the vertices of a write tagged g are in the buffer; they were appended
\* after the most recent undirty()
HistReturned(x, q, g) ==
    [x EXCEPT !.returned = @ \cup {q}, !.tags = IF g > 0 THEN @ \cup {g} ELSE @,
              !.fresh = @ \cup {q}]

NoLocal ==
    [h |-> 0, g |-> NoGen, q |-> NoQuad, pos |-> 0, i |-> 0, snap |-> <<>>,
     pre |-> [len |-> 0, generation |-> 0, dirty |-> FALSE], was |-> FALSE,
     layer_id |-> 0, prog |-> "None", cell |-> "none", value |-> "none"]

\* the contents object the running operation of thread t works on
Cid(t) == layers[local[t].h].contents

---------------------------------------------------------------------------
(* Layer::add_rect, step by step *)

\* add_rect(generation, ...) on layer h is called: set_dirty(true); a call
\* without a generation skips the generation check
AddRectCall(t, h, g) ==
    /\ pc[t] = "idle"
    /\ h \in Handles
    /\ LET c == layers[h].contents
       IN  /\ heap' = [heap EXCEPT ![c] = set_dirty(@, TRUE)]
           /\ local' = [local EXCEPT ![t] = [NoLocal EXCEPT !.h = h, !.g = g,
                                                !.q = <<t, calls[t] + 1>>,
                                                !.pre = Observe(heap[c])]]
           /\ hist' = [hist EXCEPT ![c] =
                         IF g = NoGen THEN HistAccepted(HistDirtied(@)) ELSE HistDirtied(@)]
    /\ pc' = [pc EXCEPT ![t] = IF g = NoGen THEN "ar_map" ELSE "ar_gen"]
    /\ calls' = [calls EXCEPT ![t] = @ + 1]
    /\ UNCHANGED <<LAYER_COUNTER, layers, origin>>

\* a generation check that compares with the generation loaded when the call
\* started and stores afterwards, instead of one atomic swap
AddRectGenerationStale(t) ==
    /\ pc[t] = "ar_gen"
    /\ LET c == Cid(t)
           previous == local[t].pre.generation
           ok == previous = local[t].g \/ local[t].g = 0 \/ previous = 0
       IN  /\ heap' = [heap EXCEPT ![c].generation = local[t].g]
           /\ IF ok
                 THEN /\ pc' = [pc EXCEPT ![t] = "ar_map"]
                      /\ local' = local
                      /\ hist' = [hist EXCEPT ![c] = HistAccepted(@)]
                 ELSE /\ pc' = [pc EXCEPT ![t] = "idle"]
                      /\ local' = [local EXCEPT ![t] = NoLocal]
                      /\ hist' = [hist EXCEPT ![c].rejected = @ + 1]
    /\ UNCHANGED <<LAYER_COUNTER, layers, origin, calls>>

\* generation.is_some() && !self.set_generation(generation.unwrap()): the call
\* panics when set_generation fails, and goes on to map its vertices otherwise
AddRectGeneration(t) ==
    /\ pc[t] = "ar_gen"
    /\ LET c == Cid(t)
           r == set_generation(heap[c], local[t].g)
       IN  /\ heap' = [heap EXCEPT ![c] = r.contents]
           /\ IF r.ok
                 THEN /\ pc' = [pc EXCEPT ![t] = "ar_map"]
                      /\ local' = local
                      /\ hist' = [hist EXCEPT ![c] = HistAccepted(@)]
                 ELSE /\ pc' = [pc EXCEPT ![t] = "idle"]
                      /\ local' = [local EXCEPT ![t] = NoLocal]
                      /\ hist' = [hist EXCEPT ![c].rejected = @ + 1]
    /\ UNCHANGED <<LAYER_COUNTER, layers, origin, calls>>

\* vertex_data.map(4) when the buffer has to grow first
AddRectGrow(t) ==
    /\ pc[t] = "ar_map"
    /\ LET c == Cid(t)
       IN  /\ AVecCanGrow(heap[c].vertex_data, QuadVertices)
           /\ heap' = [heap EXCEPT ![c].vertex_data = AVecGrow(@, QuadVertices)]
    /\ UNCHANGED <<LAYER_COUNTER, layers, origin, pc, local, calls, hist>>

\* vertex_data.map(4): the reservation
AddRectMap(t) ==
    /\ pc[t] = "ar_map"
    /\ LET c == Cid(t)
           v == heap[c].vertex_data
       IN  /\ AVecCanMap(v, QuadVertices)
           /\ heap' = [heap EXCEPT ![c].vertex_data = AVecMap(@, QuadVertices, t)]
           /\ local' = [local EXCEPT ![t].pos = AVecLen(v), ![t].i = 0]
           /\ hist' = [hist EXCEPT ![c].resv = @ \cup {[q |-> local[t].q, pos |-> AVecLen(v)]}]
    /\ pc' = [pc EXCEPT ![t] = "ar_set"]
    /\ UNCHANGED <<LAYER_COUNTER, layers, origin, calls>>

\* add_rect that lets go of its write view before the last corner is stored
AddRectSetEarlyDrop(t) ==
    /\ pc[t] = "ar_set"
    /\ LET c == Cid(t)
           i == local[t].i
           w == AVecSet(heap[c].vertex_data, local[t].pos, i, Vertex(local[t].q, i))
       IN  /\ heap' = [heap EXCEPT ![c].vertex_data = IF i = 2 THEN AVecUnmap(w, t) ELSE w]
           /\ local' = [local EXCEPT ![t].i = i + 1]
           /\ pc' = [pc EXCEPT ![t] = IF i = 3 THEN "ar_drop" ELSE "ar_set"]
    /\ UNCHANGED <<LAYER_COUNTER, layers, origin, calls, hist>>

\* map.set(i, Vertex {..}) for i = 0, 1, 2, 3
AddRectSet(t) ==
    /\ pc[t] = "ar_set"
    /\ LET c == Cid(t)
           i == local[t].i
       IN  /\ heap' = [heap EXCEPT ![c].vertex_data =
                         AVecSet(@, local[t].pos, i, Vertex(local[t].q, i))]
           /\ local' = [local EXCEPT ![t].i = i + 1]
           /\ pc' = [pc EXCEPT ![t] = IF i = 3 THEN "ar_drop" ELSE "ar_set"]
    /\ UNCHANGED <<LAYER_COUNTER, layers, origin, calls, hist>>

\* add_rect returns: the write view is dropped
AddRectReturn(t) ==
    /\ pc[t] = "ar_drop"
    /\ LET c == Cid(t)
       IN  /\ heap' = [heap EXCEPT ![c].vertex_data = AVecUnmap(@, t)]
           /\ hist' = [hist EXCEPT ![c] = HistReturned(@, local[t].q, local[t].g)]
    /\ pc' = [pc EXCEPT ![t] = "idle"]
    /\ local' = [local EXCEPT ![t] = NoLocal]
    /\ UNCHANGED <<LAYER_COUNTER, layers, origin, calls>>

---------------------------------------------------------------------------
(* Layer::clear, step by step *)

\* a clear() that starts with set_dirty(false)
ClearCallUnsetsDirty(t, h) ==
    /\ pc[t] = "idle"
    /\ h \in Handles
    /\ LET c == layers[h].contents
       IN  /\ heap' = [heap EXCEPT ![c] = set_dirty(@, FALSE)]
           /\ hist' = [hist EXCEPT ![c] = [HistDirtied(@) EXCEPT !.nclears = @ + 1]]
    /\ local' = [local EXCEPT ![t] = [NoLocal EXCEPT !.h = h]]
    /\ pc' = [pc EXCEPT ![t] = "cl_gen"]
    /\ calls' = [calls EXCEPT ![t] = @ + 1]
    /\ UNCHANGED <<LAYER_COUNTER, layers, origin>>

\* clear() on layer h is called: set_dirty(true)
ClearCall(t, h) ==
    /\ pc[t] = "idle"
    /\ h \in Handles
    /\ LET c == layers[h].contents
       IN  /\ heap' = [heap EXCEPT ![c] = set_dirty(@, TRUE)]
           /\ hist' = [hist EXCEPT ![c] = [HistDirtied(@) EXCEPT !.nclears = @ + 1]]
    /\ local' = [local EXCEPT ![t] = [NoLocal EXCEPT !.h = h]]
    /\ pc' = [pc EXCEPT ![t] = "cl_gen"]
    /\ calls' = [calls EXCEPT ![t] = @ + 1]
    /\ UNCHANGED <<LAYER_COUNTER, layers, origin>>

\* clear that keeps the generation
ClearGenerationKept(t) ==
    /\ pc[t] = "cl_gen"
    /\ pc' = [pc EXCEPT ![t] = "cl_clear"]
    /\ UNCHANGED <<LAYER_COUNTER, layers, origin, heap, local, calls, hist>>

\* self.set_generation(0)
ClearGeneration(t) ==
    /\ pc[t] = "cl_gen"
    /\ heap' = [heap EXCEPT ![Cid(t)] = set_generation(@, 0).contents]
    /\ pc' = [pc EXCEPT ![t] = "cl_clear"]
    /\ UNCHANGED <<LAYER_COUNTER, layers, origin, local, calls, hist>>

\* self.contents.vertex_data.clear(), and clear returns
ClearVertexData(t) ==
    /\ pc[t] = "cl_clear"
    /\ LET c == Cid(t)
       IN  /\ heap' = [heap EXCEPT ![c].vertex_data = AVecClear(@)]
           /\ hist' = [hist EXCEPT ![c].resv = {}, ![c].returned = {}, ![c].tags = {},
                                   ![c].fresh = {}]
    /\ pc' = [pc EXCEPT ![t] = "idle"]
    /\ local' = [local EXCEPT ![t] = NoLocal]
    /\ UNCHANGED <<LAYER_COUNTER, layers, origin, calls>>

---------------------------------------------------------------------------
(* Layer::vertices and Layer::undirty *)

\* vertices() on layer h: the read guard is taken and shows the snapshot
VerticesCall(t, h) ==
    /\ pc[t] = "idle"
    /\ h \in Handles
    /\ LET c == layers[h].contents
           v == heap[c].vertex_data
       IN  /\ AVecCanGet(v)
           /\ heap' = [heap EXCEPT ![c].vertex_data = AVecGet(@, t)]
           /\ local' = [local EXCEPT ![t] = [NoLocal EXCEPT !.h = h, !.snap = AVecView(v)]]
    /\ pc' = [pc EXCEPT ![t] = "v_held"]
    /\ calls' = [calls EXCEPT ![t] = @ + 1]
    /\ UNCHANGED <<LAYER_COUNTER, layers, origin, hist>>

\* the read guard is dropped
VerticesDrop(t) ==
    /\ pc[t] = "v_held"
    /\ heap' = [heap EXCEPT ![Cid(t)].vertex_data = AVecRelease(@)]
    /\ pc' = [pc EXCEPT ![t] = "idle"]
    /\ local' = [local EXCEPT ![t] = NoLocal]
    /\ UNCHANGED <<LAYER_COUNTER, layers, origin, calls, hist>>

\* undirty() on layer h
UndirtyCall(t, h) ==
    /\ pc[t] = "idle"
    /\ h \in Handles
    /\ LET c == layers[h].contents
           r == undirty(heap[c])
       IN  /\ heap' = [heap EXCEPT ![c] = r.contents]
           /\ hist' = [hist EXCEPT ![c].undirtyCalls = @ + 1,
                                   ![c].undirtyTrue = IF r.was THEN @ + 1 ELSE @,
                                   ![c].fresh = {}]
    /\ calls' = [calls EXCEPT ![t] = @ + 1]
    /\ UNCHANGED <<LAYER_COUNTER, layers, origin, pc, local>>

---------------------------------------------------------------------------
(* The renderer and the size buckets while only layers are worked on *)

NoDraw == [op |-> "none", on |-> "none"]
\* a failed assertion (or arithmetic overflow): the call returns nothing
BucketPanic == [ok |-> FALSE, bucket_id |-> 0, size |-> 0]
NoCall == [width |-> 0, height |-> 0, called |-> FALSE, ret |-> BucketPanic]

NoRenderer ==
    /\ ctor = "none"
    /\ target = <<>>
    /\ scopes = <<>>
    /\ drawn = NoDraw

---------------------------------------------------------------------------
(* The concurrent specification: NumThreads threads work on one layer and  *)
(* on a clone of it; thread t draws through handle HandleOf(t).            *)

HandleOf(t) == 1 + ((t - 1) % 2)

Init ==
    LET a == create(0, <<>>, "None")
        b == create_clone(a.layer, a.heap, "None")
    IN  /\ LAYER_COUNTER = a.counter
        /\ layers = <<a.layer, b.layer>>
        /\ origin = <<[root |-> 1, parent |-> 0, by |-> "new"],
                    [root |-> 1, parent |-> 1, by |-> "clone"]>>
        /\ heap = b.heap
        /\ hist = HistFor(<<>>, Len(b.heap))
        /\ pc = [t \in Threads |-> "idle"]
        /\ local = [t \in Threads |-> NoLocal]
        /\ calls = [t \in Threads |-> 0]
        /\ NoRenderer
        /\ bucket = NoCall

Step(t) ==
    \/ AddRectGeneration(t)
    \/ AddRectGrow(t)
    \/ AddRectMap(t)
    \/ AddRectSet(t)
    \/ AddRectReturn(t)
    \/ ClearGeneration(t)
    \/ ClearVertexData(t)
    \/ VerticesDrop(t)

Call(t, h) ==
    \/ \E g \in GenArgs : AddRectCall(t, h, g)
    \/ ClearCall(t, h)
    \/ VerticesCall(t, h)
    \/ UndirtyCall(t, h)

Next ==
    /\ \E t \in Threads :
        \/ calls[t] < MaxCalls /\ Call(t, HandleOf(t))
        \/ Step(t)
    /\ UNCHANGED <<render_vars, bucket>>

Spec == Init /\ [][Next]_vars

---------------------------------------------------------------------------
(* The cells of a layer: view matrix, model matrix, blend mode, color *)

\* a setter that stores the color in every layer sharing the contents
set_color_shared(ls, h, color) ==
    [k \in 1..Len(ls) |->
        IF ls[k].contents = ls[h].contents THEN [ls[k] EXCEPT !.color = color] ELSE ls[k]]

\* Layer::set_color: self.color().set(color)
set_color(ls, h, color) == [ls EXCEPT ![h].color = color]

\* Layer::set_view_matrix: self.view_matrix().set(&matrix.into())
set_view_matrix(ls, h, matrix) == [ls EXCEPT ![h].view_matrix = matrix]

\* Layer::set_model_matrix: self.model_matrix().set(&matrix.into())
set_model_matrix(ls, h, matrix) == [ls EXCEPT ![h].model_matrix = matrix]

\* Layer::set_blendmode: *self.blendmode() = blendmode
set_blendmode(ls, h, blendmode) == [ls EXCEPT ![h].blend = blendmode]

SetCell(t, h, ls) ==
    /\ pc[t] = "idle"
    /\ h \in Handles
    /\ layers' = ls
    /\ calls' = [calls EXCEPT ![t] = @ + 1]
    /\ UNCHANGED <<LAYER_COUNTER, origin, heap, pc, local, hist>>

SetColor(t, h) == \E color \in Colors : SetCell(t, h, set_color(layers, h, color))

SetViewMatrix(t, h) == \E m \in Matrices : SetCell(t, h, set_view_matrix(layers, h, m))

SetModelMatrix(t, h) == \E m \in Matrices : SetCell(t, h, set_model_matrix(layers, h, m))

SetBlendmode(t, h) == \E b \in BlendModes : SetCell(t, h, set_blendmode(layers, h, b))

\* Layer::new (no program) and Layer::with_program
LayerNew(t, prog) ==
    /\ pc[t] = "idle"
    /\ Len(layers) < MaxLayers
    /\ LET r == create(LAYER_COUNTER, heap, prog)
       IN  /\ layers' = Append(layers, r.layer)
           /\ heap' = r.heap
           /\ LAYER_COUNTER' = r.counter
           /\ hist' = HistFor(hist, Len(r.heap))
    /\ origin' = Append(origin, [root |-> Len(layers) + 1, parent |-> 0, by |-> "new"])
    /\ calls' = [calls EXCEPT ![t] = @ + 1]
    /\ UNCHANGED <<pc, local>>

\* Clone::clone (no program) and Layer::clone_with_program
LayerClone(t, h, prog) ==
    /\ pc[t] = "idle"
    /\ h \in Handles
    /\ Len(layers) < MaxLayers
    /\ LET r == IF prog = "None" THEN clone(layers[h], heap)
                                  ELSE clone_with_program(layers[h], heap, prog)
       IN  /\ layers' = Append(layers, r.layer)
           /\ heap' = r.heap
           /\ hist' = HistFor(hist, Len(r.heap))
    /\ origin' = Append(origin, [root |-> origin[h].root, parent |-> h,
                                 by |-> IF prog = "None" THEN "clone"
                                                         ELSE "clone_with_program"])
    /\ calls' = [calls EXCEPT ![t] = @ + 1]
    /\ UNCHANGED <<LAYER_COUNTER, pc, local>>

---------------------------------------------------------------------------
(* The sequential specification: one thread creates layers, clones them,   *)
(* sets their cells and draws; every operation runs to its end before the  *)
(* next one starts.                                                        *)

Main == 1

NoLayers ==
    /\ LAYER_COUNTER = 0
    /\ layers = <<>>
    /\ origin = <<>>
    /\ heap = <<>>
    /\ hist = <<>>
    /\ pc = [t \in Threads |-> "idle"]
    /\ local = [t \in Threads |-> NoLocal]
    /\ calls = [t \in Threads |-> 0]

InitSeq == NoLayers /\ NoRenderer /\ bucket = NoCall

CallSeq(h) ==
    \/ \E g \in GenArgs : AddRectCall(Main, h, g)
    \/ ClearCall(Main, h)
    \/ VerticesCall(Main, h)
    \/ UndirtyCall(Main, h)
    \/ SetColor(Main, h)
    \/ SetViewMatrix(Main, h)
    \/ SetModelMatrix(Main, h)
    \/ SetBlendmode(Main, h)
    \/ \E prog \in Programs : LayerClone(Main, h, prog)

NextSeq ==
    /\ \/ /\ calls[Main] < MaxSeqOps
          /\ \/ \E prog \in Programs : LayerNew(Main, prog)
             \/ \E h \in Handles : CallSeq(h)
       \/ Step(Main)
    /\ UNCHANGED <<render_vars, bucket>>

SpecSeq == InitSeq /\ [][NextSeq]_vars

---------------------------------------------------------------------------
(* Mutators next to drawing: threads draw to a layer and its clone, set    *)
(* the cells of both and take snapshots. A setter locks the mutex of its   *)
(* cell, stores the value and drops the guard at the end of the statement. *)

CellNames == {"color", "view_matrix", "model_matrix", "blend"}

\* the value a setter is called with
CellValue(cell) ==
    CASE cell = "color" -> "RED"
      [] cell = "blend" -> "ADD"
      [] OTHER -> "rotated"

\* the threads holding the guard of a cell of layer h
Holding(h, cell) ==
    {t \in Threads : pc[t] = "set_locked" /\ local[t].h = h /\ local[t].cell = cell}

\* self.color() / view_matrix() / model_matrix() / blendmode():
\* self.<cell>.lock().unwrap() inside a setter called with value
CellLock(t, h, cell, value) ==
    /\ pc[t] = "idle"
    /\ h \in Handles
    /\ Holding(h, cell) = {}
    /\ pc' = [pc EXCEPT ![t] = "set_locked"]
    /\ local' = [local EXCEPT ![t] = [NoLocal EXCEPT !.h = h, !.cell = cell, !.value = value]]
    /\ calls' = [calls EXCEPT ![t] = @ + 1]
    /\ UNCHANGED <<LAYER_COUNTER, layers, origin, heap, hist>>

\* a setter that writes to the shared contents as well
CellStoreDirty(t) ==
    /\ pc[t] = "set_locked"
    /\ layers' = set_color(layers, local[t].h, layers[local[t].h].color)
    /\ heap' = [heap EXCEPT ![Cid(t)] = set_dirty(@, ~@.dirty)]
    /\ pc' = [pc EXCEPT ![t] = "idle"]
    /\ local' = [local EXCEPT ![t] = NoLocal]
    /\ UNCHANGED <<LAYER_COUNTER, origin, calls, hist>>

\* .set(value) / *guard = value through the guard, which is then dropped
CellStore(t) ==
    /\ pc[t] = "set_locked"
    /\ LET h == local[t].h
           value == local[t].value
       IN  layers' = CASE local[t].cell = "color" -> set_color(layers, h, value)
                       [] local[t].cell = "view_matrix" -> set_view_matrix(layers, h, value)
                       [] local[t].cell = "model_matrix" -> set_model_matrix(layers, h, value)
                       [] local[t].cell = "blend" -> set_blendmode(layers, h, value)
    /\ pc' = [pc EXCEPT ![t] = "idle"]
    /\ local' = [local EXCEPT ![t] = NoLocal]
    /\ UNCHANGED <<LAYER_COUNTER, origin, heap, calls, hist>>

StepMut(t) ==
    \/ AddRectGeneration(t)
    \/ AddRectGrow(t)
    \/ AddRectMap(t)
    \/ AddRectSet(t)
    \/ AddRectReturn(t)
    \/ VerticesDrop(t)
    \/ CellStore(t)

CallMut(t) ==
    \/ \E g \in {NoGen, 1} : AddRectCall(t, HandleOf(t), g)
    \/ VerticesCall(t, HandleOf(t))
    \/ \E h \in Handles, cell \in CellNames : CellLock(t, h, cell, CellValue(cell))

NextMut ==
    /\ \E t \in Threads :
        \/ calls[t] < MaxCalls /\ CallMut(t)
        \/ StepMut(t)
    /\ UNCHANGED <<render_vars, bucket>>

SpecMut == Init /\ [][NextMut]_vars

\* thread t takes the next step of its operation
RunMut(t) == StepMut(t) /\ UNCHANGED <<render_vars, bucket>>

\* every thread that can take a step is scheduled again
SpecLive == SpecMut /\ \A t \in Threads : WF_vars(RunMut(t))

---------------------------------------------------------------------------
(* A race for the generation: every thread issues one write to the unset   *)
(* layer (through the layer or its clone), thread t with generation t. The *)
(* layer is empty, or holds one quad written without a generation, so that *)
(* the accepted write has to grow the buffer.                              *)

GenerationOf(t) == t

\* the quad of l.add_rect(None, ..) issued before the threads start
UntaggedQuad == <<0, 1>>

\* contents c after that call has returned
AfterUntagged(c) ==
    [set_dirty(c, TRUE) EXCEPT
        !.vertex_data = AVecUnmap(
            AVecSet(AVecSet(AVecSet(AVecSet(AVecMap(@, QuadVertices, 0),
                0, 0, Vertex(UntaggedQuad, 0)),
                0, 1, Vertex(UntaggedQuad, 1)),
                0, 2, Vertex(UntaggedQuad, 2)),
                0, 3, Vertex(UntaggedQuad, 3)), 0)]

HistAfterUntagged ==
    [HistReturned(HistAccepted(NoHist), UntaggedQuad, NoGen)
        EXCEPT !.resv = {[q |-> UntaggedQuad, pos |-> 0]}]

InitRace ==
    LET a == create(0, <<>>, "None")
        b == create_clone(a.layer, a.heap, "None")
    IN  /\ LAYER_COUNTER = a.counter
        /\ layers = <<a.layer, b.layer>>
        /\ origin = <<[root |-> 1, parent |-> 0, by |-> "new"],
                    [root |-> 1, parent |-> 1, by |-> "clone"]>>
        /\ \/ heap = b.heap /\ hist = HistFor(<<>>, Len(b.heap))
           \/ /\ heap = [c \in 1..Len(b.heap) |-> AfterUntagged(b.heap[c])]
              /\ hist = [c \in 1..Len(b.heap) |-> HistAfterUntagged]
        /\ pc = [t \in Threads |-> "idle"]
        /\ local = [t \in Threads |-> NoLocal]
        /\ calls = [t \in Threads |-> 0]
        /\ NoRenderer
        /\ bucket = NoCall

CallRace(t) ==
    /\ calls[t] = 0
    /\ \E h \in Handles : AddRectCall(t, h, GenerationOf(t))

StepRace(t) ==
    \/ AddRectGeneration(t)
    \/ AddRectGrow(t)
    \/ AddRectMap(t)
    \/ AddRectSet(t)
    \/ AddRectReturn(t)

NextRace ==
    /\ \E t \in Threads : CallRace(t) \/ StepRace(t)
    /\ UNCHANGED <<render_vars, bucket>>

SpecRace == InitRace /\ [][NextRace]_vars

---------------------------------------------------------------------------
(* Frames: one thread draws to a layer and its clone, clears, draws again  *)
(* and takes snapshots; every operation runs to its end before the next    *)
(* one starts.                                                             *)

NextDraw ==
    /\ \/ calls[Main] < MaxDrawOps /\ \E h \in Handles : Call(Main, h)
       \/ Step(Main)
    /\ UNCHANGED <<render_vars, bucket>>

SpecDraw == Init /\ [][NextDraw]_vars

---------------------------------------------------------------------------
(* Concurrent creation: every thread creates layers and clones them. The   *)
(* only shared access of Layer::create is its fetch_add on LAYER_COUNTER;  *)
(* the layer exists for the other threads once the call returned.          *)

\* the threads inside a Layer::new / Layer::with_program call
Creating == {t \in Threads : pc[t] = "new_build"}

\* Layer::new / with_program is called: LAYER_COUNTER.fetch_add(1, Relaxed)
LayerNewFetch(t, prog) ==
    /\ pc[t] = "idle"
    /\ LET r == create(LAYER_COUNTER, heap, prog)
       IN  /\ LAYER_COUNTER' = r.counter
           /\ local' = [local EXCEPT ![t] =
                          [NoLocal EXCEPT !.layer_id = r.heap[Len(r.heap)].layer_id,
                                          !.prog = prog]]
    /\ pc' = [pc EXCEPT ![t] = "new_build"]
    /\ calls' = [calls EXCEPT ![t] = @ + 1]
    /\ UNCHANGED <<layers, origin, heap, hist>>

\* the call returns the layer built around the id it fetched
LayerNewReturn(t) ==
    /\ pc[t] = "new_build"
    /\ LET r == create(local[t].layer_id - 1, heap, local[t].prog)
       IN  /\ layers' = Append(layers, r.layer)
           /\ heap' = r.heap
           /\ hist' = HistFor(hist, Len(r.heap))
    /\ origin' = Append(origin, [root |-> Len(layers) + 1, parent |-> 0, by |-> "new"])
    /\ pc' = [pc EXCEPT ![t] = "idle"]
    /\ local' = [local EXCEPT ![t] = NoLocal]
    /\ UNCHANGED <<LAYER_COUNTER, calls>>

NextNew ==
    /\ \E t \in Threads :
        \/ /\ calls[t] < MaxCalls
           /\ Len(layers) + Cardinality(Creating) < MaxLayers
           /\ \/ \E prog \in Programs : LayerNewFetch(t, prog)
              \/ \E h \in Handles, prog \in Programs : LayerClone(t, h, prog)
        \/ LayerNewReturn(t)
    /\ UNCHANGED <<render_vars, bucket>>

SpecNew == InitSeq /\ [][NextNew]_vars

---------------------------------------------------------------------------
(* Renderer::bucket_info: the size bucket of a texture *)

\* widths and heights of the textures bucket_info is called for
TextureSizes == 1..(2^(NUM_BUCKETS + 2) + MaxOversize)

\* cmp::max on two numbers
max(a, b) == IF a >= b THEN a ELSE b

RECURSIVE floor_log2(_)
\* the exponent of the f32 nearest below n
floor_log2(n) == IF n <= 1 THEN 0 ELSE 1 + floor_log2(n \div 2)

\* n as f32: exact up to 2^24, rounded to 24 significant bits (ties to even)
\* above
as_f32(n) ==
    IF n < 2^24 THEN n
    ELSE LET e == 2^(floor_log2(n) - 23)
             q == n \div e
             r == n % e
         IN  IF 2 * r > e \/ (2 * r = e /\ q % 2 = 1) THEN (q + 1) * e ELSE q * e

\* x.log2() rounded towards zero
log2_floor(x) == floor_log2(x)

RECURSIVE log2_ceil(_)
\* x.log2().ceil() as u32 for x >= 1: the number of doublings that reach x
log2_ceil(x) == IF x <= 1 THEN 0 ELSE 1 + log2_ceil((x + 1) \div 2)

\* bucket_info with the bucket one class too small
bucket_info_small(width, height) ==
    LET ln2 == log2_ceil(as_f32(max(width, height)))
        bucket_id == max(1, ln2 - 4)
    IN  IF bucket_id + 4 - 1 < 32 /\ bucket_id < NUM_BUCKETS
           THEN [ok |-> TRUE, bucket_id |-> bucket_id, size |-> 2^(bucket_id + 4 - 1)]
           ELSE BucketPanic

\* bucket_info that looks at the width only
bucket_info_width(width, height) ==
    LET ln2 == log2_ceil(as_f32(width))
        bucket_id == max(1, ln2 - 4 + 1)
    IN  IF bucket_id + 4 - 1 < 32 /\ bucket_id < NUM_BUCKETS
           THEN [ok |-> TRUE, bucket_id |-> bucket_id, size |-> 2^(bucket_id + 4 - 1)]
           ELSE BucketPanic

\* bucket_info without its assertion
bucket_info_unchecked(width, height) ==
    LET ln2 == log2_ceil(as_f32(max(width, height)))
        bucket_id == max(1, ln2 - 4 + 1)
    IN  IF bucket_id + 4 - 1 < 32
           THEN [ok |-> TRUE, bucket_id |-> bucket_id, size |-> 2^(bucket_id + 4 - 1)]
           ELSE BucketPanic

\* Renderer::bucket_info(width, height): 2u32.pow overflows from 2^32 on
\* (a panic in a debug build, a wrapped size and then the failed assertion
\* in a release build), and the assertion fails from NUM_BUCKETS on
bucket_info(width, height) ==
    LET ln2 == log2_ceil(as_f32(max(width, height)))
        bucket_id == max(1, ln2 - 4 + 1)
    IN  IF bucket_id + 4 - 1 < 32 /\ bucket_id < NUM_BUCKETS
           THEN [ok |-> TRUE, bucket_id |-> bucket_id, size |-> 2^(bucket_id + 4 - 1)]
           ELSE BucketPanic

\* a texture of some width and height is about to be put into its bucket
InitBucket ==
    /\ NoLayers
    /\ NoRenderer
    /\ \E width, height \in TextureSizes :
          bucket = [NoCall EXCEPT !.width = width, !.height = height]

\* bucket_info(width, height) is called for the texture
BucketInfoCall ==
    /\ ~bucket.called
    /\ bucket' = [bucket EXCEPT !.called = TRUE,
                                !.ret = bucket_info(bucket.width, bucket.height)]
    /\ UNCHANGED <<layer_vars, render_vars>>

NextBucket == BucketInfoCall

SpecBucket == InitBucket /\ [][NextBucket]_vars

---------------------------------------------------------------------------
(* The renderer and its stack of render targets. The renderer is used by   *)
(* one thread; render_to and postprocess run caller code (the draw         *)
(* function, the hooks of the postprocessor) that draws, opens further     *)
(* scopes or panics.                                                       *)

\* the frame of the display
Frame == "display.frame"
\* textures passed to render_to
Textures == {"texture_a", "texture_b"}
\* postprocessors::Basic and the texture its target() returns
Postprocessors == {[name |-> "basic", source |-> "basic.source"]}

\* Renderer::new(display): the stack holds the frame of the display
RendererNew == [ctor |-> "new", target |-> <<Frame>>]

\* Renderer::headless(context): Self::create(context, Vec::new())
RendererHeadless == [ctor |-> "headless", target |-> <<>>]

\* self.target.borrow_mut().push(..)
push_target(tg, t) == Append(tg, t)

\* self.target.borrow_mut().pop(): Vec::pop returns None on an empty vector
pop_target(tg) == IF tg = <<>> THEN tg ELSE SubSeq(tg, 1, Len(tg) - 1)

\* self.target.borrow().last().unwrap(): panics on an empty stack
current(tg) == IF tg = <<>> THEN "panic" ELSE tg[Len(tg)]

\* a drawing operation resolves the current target and acts on it; where it
\* panics the panic is caught around the operation
DrawOn(op) ==
    /\ ctor # "none"
    /\ drawn' = [op |-> op, on |-> current(target)]
    /\ UNCHANGED <<layer_vars, ctor, target, scopes, bucket>>

\* Renderer::clear
Clear == DrawOn("clear")
\* Renderer::draw_layer
DrawLayer == DrawOn("draw_layer")
\* Renderer::rect(..).draw() and Renderer::fill().draw()
DrawRect == DrawOn("draw_rect")
\* Renderer::copy_rect_from
CopyRectFrom == DrawOn("copy_rect_from")
\* Renderer::copy_from
CopyFrom == DrawOn("copy_from")

\* a call in progress: what was called, where it is, the target it pushed
\* and the stack it found
Scope(op, t, tg) == [op |-> op, pc |-> "draw_func", target |-> t, entry |-> tg]

Innermost == scopes[Len(scopes)]
Leave(n) == SubSeq(scopes, 1, Len(scopes) - n)

\* render_to(target, draw_func) is called: push_target, then draw_func runs
RenderTo(t) ==
    /\ ctor # "none"
    /\ Len(scopes) < MaxScopes /\ Len(target) < MaxTargets
    /\ target' = push_target(target, t)
    /\ scopes' = Append(scopes, Scope("render_to", t, target))
    /\ drawn' = NoDraw
    /\ UNCHANGED <<layer_vars, ctor, bucket>>

\* draw_func returned: pop_target, and render_to returns
RenderToReturn ==
    /\ scopes # <<>> /\ Innermost.op = "render_to"
    /\ target' = pop_target(target)
    /\ scopes' = Leave(1)
    /\ drawn' = NoDraw
    /\ UNCHANGED <<layer_vars, ctor, bucket>>

\* postprocess(postprocessor, arg, draw_func) is called:
\* push_target(postprocessor.target()), then draw_func runs
Postprocess(p) ==
    /\ ctor # "none"
    /\ Len(scopes) < MaxScopes /\ Len(target) < MaxTargets
    /\ target' = push_target(target, p.source)
    /\ scopes' = Append(scopes, Scope("postprocess", p.source, target))
    /\ drawn' = NoDraw
    /\ UNCHANGED <<layer_vars, ctor, bucket>>

\* draw_func returned: postprocessor.process(self, arg) runs
PostprocessProcess ==
    /\ scopes # <<>> /\ Innermost.op = "postprocess" /\ Innermost.pc = "draw_func"
    /\ scopes' = [scopes EXCEPT ![Len(scopes)].pc = "process"]
    /\ drawn' = NoDraw
    /\ UNCHANGED <<layer_vars, ctor, target, bucket>>

\* process returned: pop_target, then postprocessor.draw(self, arg) runs
PostprocessDraw ==
    /\ scopes # <<>> /\ Innermost.op = "postprocess" /\ Innermost.pc = "process"
    /\ target' = pop_target(target)
    /\ scopes' = [scopes EXCEPT ![Len(scopes)].pc = "draw"]
    /\ drawn' = NoDraw
    /\ UNCHANGED <<layer_vars, ctor, bucket>>

\* draw returned, and postprocess returns
PostprocessReturn ==
    /\ scopes # <<>> /\ Innermost.op = "postprocess" /\ Innermost.pc = "draw"
    /\ scopes' = Leave(1)
    /\ drawn' = NoDraw
    /\ UNCHANGED <<layer_vars, ctor, target, bucket>>

\* the draw function or a hook panics; the panic unwinds n calls and is
\* caught there: render_to / postprocess have no code that runs on unwinding
Panic(n) ==
    /\ scopes # <<>> /\ n \in 1..Len(scopes)
    /\ scopes' = Leave(n)
    /\ drawn' = NoDraw
    /\ UNCHANGED <<layer_vars, ctor, target, bucket>>

InitRender ==
    /\ NoLayers
    /\ bucket = NoCall
    /\ \E r \in {RendererNew, RendererHeadless} : ctor = r.ctor /\ target = r.target
    /\ scopes = <<>>
    /\ drawn = NoDraw

NextRender ==
    \/ Clear
    \/ DrawLayer
    \/ DrawRect
    \/ CopyRectFrom
    \/ CopyFrom
    \/ \E t \in Textures : RenderTo(t)
    \/ RenderToReturn
    \/ \E p \in Postprocessors : Postprocess(p)
    \/ PostprocessProcess
    \/ PostprocessDraw
    \/ PostprocessReturn
    \/ \E n \in 1..MaxScopes : Panic(n)

SpecRender == InitRender /\ [][NextRender]_vars

---------------------------------------------------------------------------
(* The target stack by itself: push_target and pop_target called in any    *)
(* order on the stack of a renderer.                                       *)

\* push_target(target) is called and returns
PushTarget(t) ==
    /\ Len(target) < MaxTargets
    /\ target' = push_target(target, t)
    /\ drawn' = [op |-> "push_target", on |-> "returned"]
    /\ UNCHANGED <<layer_vars, ctor, scopes, bucket>>

\* pop_target() is called: Vec::pop returns an Option that is dropped, on
\* every stack the call returns
PopTarget ==
    /\ target' = pop_target(target)
    /\ drawn' = [op |-> "pop_target", on |-> "returned"]
    /\ UNCHANGED <<layer_vars, ctor, scopes, bucket>>

NextStack ==
    \/ \E t \in Textures \cup {p.source : p \in Postprocessors} : PushTarget(t)
    \/ PopTarget

SpecStack == InitRender /\ [][NextStack]_vars

---------------------------------------------------------------------------
(* Programs: one thread creates layers with and without a program, clones  *)
(* them with Clone::clone and clone_with_program, and draws them with a    *)
(* renderer created for a display.                                         *)

\* the program of the renderer: Program::new(context, DEFAULT_FS)
DefaultProgram == "DEFAULT_FS"

\* programs passed to with_program and clone_with_program; "None" is no program
LayerPrograms == {"None", "custom", "other"}

\* layer.program().unwrap_or(&self.program)
draw_layer_program(l) == IF l.program = "None" THEN DefaultProgram ELSE l.program

\* Renderer::draw_layer(layer, ..) for layer h
DrawLayerOf(h) ==
    /\ ctor # "none"
    /\ h \in Handles
    /\ drawn' = [op |-> "draw_layer", on |-> current(target), layer |-> h,
                 program |-> draw_layer_program(layers[h])]
    /\ UNCHANGED <<layer_vars, ctor, target, scopes, bucket>>

InitProgram ==
    /\ NoLayers
    /\ bucket = NoCall
    /\ ctor = RendererNew.ctor
    /\ target = RendererNew.target
    /\ scopes = <<>>
    /\ drawn = NoDraw

NextProgram ==
    \/ /\ calls[Main] < MaxSeqOps
       /\ \/ \E prog \in LayerPrograms : LayerNew(Main, prog)
          \/ \E h \in Handles, prog \in LayerPrograms : LayerClone(Main, h, prog)
       /\ UNCHANGED <<render_vars, bucket>>
    \/ \E h \in Handles : DrawLayerOf(h)

SpecProgram == InitProgram /\ [][NextProgram]_vars

---------------------------------------------------------------------------
(* Properties *)

AllContents == 1..Len(heap)

\* the threads inside an add_rect call on contents c
Drawing(c) == {t \in Threads : pc[t] \in {"ar_gen", "ar_map", "ar_set", "ar_drop"} /\ Cid(t) = c}

\* the threads holding a write view on contents c
Writing(c) == {t \in Threads : pc[t] \in {"ar_set", "ar_drop"} /\ Cid(t) = c}

\* C1: once every add_rect call on a contents object (through the layer or a
\* clone) has returned, and no clear was called, the buffer holds 4 vertices
\* per accepted call and len() of every layer on it is the number of accepted
\* calls, whatever the interleaving and also after growth.
C1_NoAppendLost ==
    \A c \in AllContents :
        (Drawing(c) = {} /\ hist[c].nclears = 0) =>
            /\ AVecLen(heap[c].vertex_data) = 4 * hist[c].accepted
            /\ \A h \in Handles : layers[h].contents = c => len(h) = hist[c].accepted

\* both threads drew, all calls returned, and the buffer had to grow twice
C1_Witness ==
    \E c \in AllContents :
        /\ Drawing(c) = {} /\ hist[c].nclears = 0
        /\ hist[c].accepted >= 3
        /\ \A t \in Threads : \E q \in hist[c].returned : q[1] = t
        /\ AVecCapacity(heap[c].vertex_data) > 2 * INITIAL_CAPACITY * 4

\* the slots of a reservation
Range(r) == r.pos .. (r.pos + 3)

\* the corners of reservation r stored so far: all four once the call
\* returned, the first local.i while it runs
Stored(c, r) ==
    LET W == {t \in Writing(c) : local[t].q = r.q}
    IN  IF r.q \in hist[c].returned THEN 4
        ELSE IF W = {} THEN 0
        ELSE local[CHOOSE t \in W : TRUE].i

\* C2: the reservations made since the last clear are ranges of exactly four
\* slots that start at the logical length found at reservation time, so they
\* tile the slots below the logical length and no two of them overlap; when
\* no clear was called, every corner stored so far sits in the slot of its
\* own reservation, in the order top-left, top-right, bottom-left,
\* bottom-right at offsets 0, 1, 2, 3.
C2_DisjointOrderedQuads ==
    \A c \in AllContents :
        LET R == hist[c].resv
            n == AVecLen(heap[c].vertex_data)
        IN  /\ \A r1, r2 \in R : r1 # r2 => (r1.q # r2.q /\ Range(r1) \cap Range(r2) = {})
            /\ {r.pos : r \in R} = {4 * k : k \in 0..((n \div 4) - 1)}
            /\ n = 4 * Cardinality(R)
            /\ \A t \in Writing(c) :
                  [q |-> local[t].q, pos |-> local[t].pos] \in R \/ hist[c].nclears > 0
            /\ hist[c].nclears = 0 =>
                  \A r \in R : \A j \in 0..(Stored(c, r) - 1) :
                      /\ heap[c].vertex_data.data[r.pos + j + 1] = Vertex(r.q, j)
                      /\ Vertex(r.q, j).texture_uv =
                            <<"top_left", "top_right", "bottom_left", "bottom_right">>[j + 1]

\* two calls fill their quads at the same time, after the buffer grew
C2_Witness ==
    \E c \in AllContents :
        /\ hist[c].nclears = 0
        /\ Cardinality(Writing(c)) = 2
        /\ \A t \in Writing(c) : pc[t] = "ar_set" /\ local[t].i = 2 /\ local[t].pos >= 4

\* C3: while no clear was called, the snapshot a vertices() call holds shows
\* only completely written slots, each holding the corner of the call that
\* reserved it, and it holds all four vertices of every add_rect call that
\* has returned; no reserved slot that is still unfilled is exposed, also
\* after the buffer grew.
C3_SnapshotConsistent ==
    \A t \in Threads :
        (pc[t] = "v_held" /\ hist[Cid(t)].nclears = 0) =>
            LET c == Cid(t)
                snap == local[t].snap
                R == hist[c].resv
            IN  /\ \A k \in 1..Len(snap) :
                      /\ snap[k] # NoVertex
                      /\ \E r \in R : (k - 1) \in Range(r) /\ snap[k] = Vertex(r.q, k - 1 - r.pos)
                /\ \A q \in hist[c].returned :
                      \E r \in R : /\ r.q = q
                                   /\ r.pos + 4 <= Len(snap)
                                   /\ \A j \in 0..3 : snap[r.pos + j + 1] = Vertex(q, j)

\* a snapshot of two quads is held, taken after growth, while the other
\* thread is inside add_rect waiting to reserve
C3_Witness ==
    \E t \in Threads :
        /\ pc[t] = "v_held" /\ hist[Cid(t)].nclears = 0
        /\ Len(local[t].snap) >= 8
        /\ \E u \in Threads \ {t} : pc[u] = "ar_map" /\ Cid(u) = Cid(t)

\* C4: the generation check of add_rect lets a write tagged g pass exactly
\* when the stored generation is zero, or equals g, or g is zero; a write
\* without a tag always passes; a write that fails panics (the call ends), and
\* a passed write with a nonzero tag leaves its tag as the stored generation,
\* so that a following write with another nonzero tag fails.
C4_GenerationCheck ==
    [][\A t \in Threads :
          /\ (pc[t] = "ar_gen" /\ pc'[t] # "ar_gen") =>
                LET cur == heap[Cid(t)].generation
                    g == local[t].g
                IN  /\ pc'[t] \in {"ar_map", "idle"}
                    /\ (pc'[t] = "ar_map") <=> (cur = 0 \/ cur = g \/ g = 0)
                    /\ (pc'[t] = "ar_map" /\ g # 0) => heap'[Cid(t)].generation = g
          /\ (pc[t] = "idle" /\ pc'[t] \in {"ar_gen", "ar_map"}) =>
                ((pc'[t] = "ar_map") <=> (local'[t].g = NoGen))
      ]_vars

\* a tagged write passed, another tag was refused, and a write tagged 0 is at
\* its check while the stored generation is set
C4_Witness ==
    \E t \in Threads :
        /\ pc[t] = "ar_gen" /\ local[t].g = 0
        /\ heap[Cid(t)].generation # 0
        /\ hist[Cid(t)].rejected >= 1
        /\ hist[Cid(t)].accepted >= 1

\* C5: when clear() returns and nothing ran in between, len() is 0 and the
\* generation is unset, so that set_generation succeeds for every tag,
\* whatever writes were accepted or rejected before.
C5_ClearResets ==
    [][\A t \in Threads : \A h \in Handles :
          (pc[t] = "cl_clear" /\ local[t].h = h /\ pc'[t] = "idle") =>
              /\ len(h)' = 0
              /\ Contents(h)'.generation = 0
              /\ \A g \in Generations : set_generation(Contents(h)', g).ok
      ]_vars

\* a clear has returned on a layer that had an accepted and a rejected write
C5_Witness ==
    \E h \in Handles :
        LET c == layers[h].contents
        IN  /\ pc[Main] = "idle"
            /\ hist[c].nclears >= 1 /\ hist[c].accepted >= 1 /\ hist[c].rejected >= 1
            /\ len(h) = 0 /\ hist[c].resv = {}
            /\ AVecCapacity(heap[c].vertex_data) > 0

\* C6: an add_rect call that is rejected for a generation mismatch leaves the
\* vertex count, the stored generation and the dirty flag as they were when
\* the call started.
C6_RejectedLeavesContents ==
    [][\A t \in Threads :
          (pc[t] = "ar_gen" /\ pc'[t] = "idle") =>
              Observe(heap'[Cid(t)]) = local[t].pre
      ]_vars

\* C7: the buffer never holds the vertices of two accepted writes tagged with
\* different nonzero generations unless a clear came between them.
C7_NoMixedGenerations ==
    \A c \in AllContents : Cardinality(hist[c].tags) <= 1

\* the layers that are clones of one another
Family(h) == {k \in Handles : origin[k].root = origin[h].root}

\* C8: a layer and all of its clones show the same contents: the same len(),
\* the same vertices, the same layer id, dirty flag and generation, whichever
\* of them was drawn to or cleared.
C8_ClonesShareContents ==
    \A h \in Handles : \A k \in Family(h) :
        /\ len(h) = len(k)
        /\ AVecView(Contents(h).vertex_data) = AVecView(Contents(k).vertex_data)
        /\ id(h) = id(k)
        /\ Contents(h).dirty = Contents(k).dirty
        /\ Contents(h).generation = Contents(k).generation

\* add_rect through the clone (layer 2) of layer 1 has stored its quad and is
\* about to return: layer 1 counts it, and the unrelated layer 3 is empty
C8_Witness ==
    /\ Len(layers) = 3
    /\ origin[2].parent = 1
    /\ origin[3].root = 3
    /\ pc[Main] = "ar_drop" /\ local[Main].h = 2
    /\ len(1) = 1 /\ len(3) = 0

Cells(l) == <<l.view_matrix, l.model_matrix, l.blend, l.color>>

\* C9: a clone starts with the cells (view matrix, model matrix, blend mode,
\* color) of the layer it was cloned from, and no step changes the cells of
\* two layers: a setter on one layer leaves every other layer's cells alone.
C9_CellsIndependent ==
    [][/\ \A h \in Handles : \A k \in Handles \ {h} :
             Cells(layers'[h]) # Cells(layers[h]) => Cells(layers'[k]) = Cells(layers[k])
       /\ (Len(layers') > Len(layers) /\ origin'[Len(layers')].parent # 0) =>
             Cells(layers'[Len(layers')]) = Cells(layers[origin'[Len(layers')].parent])
      ]_vars

\* a clone took over the view matrix set on its source before it was
\* cloned, and a color set on the source afterwards did not reach the clone
C9_Witness ==
    /\ Len(layers) = 2
    /\ origin[2].parent = 1
    /\ layers[1].view_matrix = "rotated" /\ layers[2].view_matrix = "rotated"
    /\ layers[1].color = "RED" /\ layers[2].color = "WHITE"
    /\ calls[Main] = 4

\* C10: undirty() returns the value of the dirty flag and leaves it false:
\* of the undirty() calls since the flag was last set, exactly the first
\* returned true, and the flag is set exactly when none was made.
C10_UndirtyOnce ==
    \A c \in AllContents :
        /\ heap[c].dirty <=> (hist[c].undirtyCalls = 0)
        /\ hist[c].undirtyTrue = (IF hist[c].undirtyCalls = 0 THEN 0 ELSE 1)

\* both threads called undirty() after an add_rect call had returned
C10_Witness ==
    \E c \in AllContents :
        /\ hist[c].undirtyCalls = 2 /\ hist[c].undirtyTrue = 1
        /\ hist[c].returned # {}
        /\ \A t \in Threads : pc[t] = "idle" /\ calls[t] >= 1
        /\ calls[2] = 1

\* C11: no dirty notification is lost: whenever the buffer contains the
\* vertices of a quad whose add_rect call completed after the most recent
\* undirty() call, the dirty flag is true, so the next undirty() returns true.
C11_NoDirtyLost ==
    \A c \in AllContents :
        (hist[c].fresh \cap hist[c].returned # {}) => heap[c].dirty

\* the ids handed out so far: of the layers and of the calls still running
IdsOfLayers == {id(h) : h \in Handles}
IdsOfCalls == {local[t].layer_id : t \in Creating}

\* C12: layer ids are unique and monotonic: the first Layer::new /
\* with_program call of the process gets id 1, every call gets an id
\* strictly larger than that of every layer created before it, no two
\* created layers get the same id, also when the calls run concurrently on
\* several threads, and two layers have the same id exactly when one is a
\* clone (of a clone) of the other.
C12_LayerIdsUnique ==
    [][/\ \A t \in Threads :
            (pc[t] = "idle" /\ pc'[t] = "new_build") =>
                /\ LAYER_COUNTER = 0 => local'[t].layer_id = 1
                /\ \A n \in IdsOfLayers \cup IdsOfCalls : local'[t].layer_id > n
       /\ \A t1, t2 \in Creating' :
            t1 # t2 => local'[t1].layer_id # local'[t2].layer_id
       /\ IdsOfLayers' \cap IdsOfCalls' = {}
       /\ \A h1, h2 \in Handles' :
            (id(h1)' = id(h2)') <=> (origin'[h1].root = origin'[h2].root)
      ]_vars

\* two threads created layers concurrently and returned in the opposite
\* order of their fetches, and the second layer was cloned
C12_Witness ==
    /\ Len(layers) = 3 /\ Creating = {}
    /\ origin[1].parent = 0 /\ origin[2].parent = 0 /\ origin[3].parent = 2
    /\ id(1) = 2 /\ id(2) = 1 /\ id(3) = 1
    /\ LAYER_COUNTER = 2

\* bucket_info was called and returned
Returned == bucket.called /\ bucket.ret.ok

\* the larger dimension of the texture of the last call
Larger == IF bucket.width >= bucket.height THEN bucket.width ELSE bucket.height

\* ceil(log2(n)): the least k with 2^k >= n
CeilLog2(n) == CHOOSE k \in 0..30 : 2^k >= n /\ (k = 0 \/ 2^(k - 1) < n)

\* C13: for every width and height of at least 1 for which bucket_info
\* returns, the result is (bucket_id, size) with
\* bucket_id = max(1, ceil(log2(max(width, height))) - 3) and
\* size = 2^(bucket_id + 3); bucket id 0 is never returned;
\* bucket_info(1, 1) = (1, 16) and bucket_info(64, 64) = (3, 64).
C13_BucketFormula ==
    /\ Returned =>
          /\ bucket.ret.bucket_id =
                (IF CeilLog2(Larger) - 3 >= 1 THEN CeilLog2(Larger) - 3 ELSE 1)
          /\ bucket.ret.size = 2^(bucket.ret.bucket_id + 3)
          /\ bucket.ret.bucket_id # 0
    /\ (bucket.called /\ bucket.width = 1 /\ bucket.height = 1) =>
          bucket.ret = [ok |-> TRUE, bucket_id |-> 1, size |-> 16]
    /\ (bucket.called /\ bucket.width = 64 /\ bucket.height = 64) =>
          bucket.ret = [ok |-> TRUE, bucket_id |-> 3, size |-> 64]

\* bucket_info(64, 64) returned
C13_Witness == Returned /\ bucket.width = 64 /\ bucket.height = 64

\* C14: bucket_info depends only on max(width, height): every call returns
\* what the call for the square of its larger dimension returns; it is
\* monotonic in it: a texture whose larger dimension is at least as large
\* never gets a smaller bucket id or size, when both calls return; and it
\* does not change when width and height are swapped.
C14_BucketMonotonic ==
    bucket.called =>
        /\ bucket_info(bucket.height, bucket.width) = bucket.ret
        /\ bucket_info(Larger, Larger) = bucket.ret
        /\ \A m2 \in TextureSizes :
              LET r2 == bucket_info(m2, m2)
              IN  (Larger <= m2 /\ bucket.ret.ok /\ r2.ok) =>
                     /\ bucket.ret.bucket_id <= r2.bucket_id
                     /\ bucket.ret.size <= r2.size

\* a call for a tall texture whose width alone falls into a smaller bucket
C14_Witness ==
    /\ Returned /\ bucket.width = 3 /\ bucket.height = 40
    /\ bucket.ret.bucket_id = 3

\* C15: bucket_info returns a result only when the computed bucket id is
\* strictly below NUM_BUCKETS; for every size whose bucket id is equal to
\* or above it the call fails and returns no bucket, so every returned
\* bucket id is in 1 .. NUM_BUCKETS - 1.
C15_BucketBelowCount ==
    bucket.called =>
        LET computed == IF CeilLog2(Larger) - 3 >= 1 THEN CeilLog2(Larger) - 3 ELSE 1
        IN  /\ bucket.ret.ok <=> computed < NUM_BUCKETS
            /\ bucket.ret.ok => bucket.ret.bucket_id \in 1..(NUM_BUCKETS - 1)
            /\ ~bucket.ret.ok => bucket.ret = BucketPanic

\* a call for a texture one pixel too wide for the largest bucket failed
C15_Witness ==
    /\ bucket.called /\ ~bucket.ret.ok
    /\ bucket.width = 2^(NUM_BUCKETS + 2) + 1 /\ bucket.height = 1

\* the powers of two a slot size is chosen from
PowersOfTwo == {2^k : k \in 0..30}

\* C16: the padded slot size fits the texture: for every width and height
\* of at least 1 for which bucket_info returns, size >= max(width, height),
\* and size is the smallest power of two that is at least max(width,
\* height) and at least 16.
C16_SizeFits ==
    Returned =>
        /\ bucket.ret.size >= Larger
        /\ bucket.ret.size \in PowersOfTwo
        /\ bucket.ret.size >= 16
        /\ \A p \in PowersOfTwo : (p >= Larger /\ p >= 16) => bucket.ret.size <= p

\* a texture just above a power of two got the next slot size
C16_Witness ==
    Returned /\ bucket.width = 33 /\ bucket.height = 20 /\ bucket.ret.size = 64

\* two stacks with the same depth and the same top entry
SameTop(a, b) == Len(a) = Len(b) /\ current(a) = current(b)

\* C17: render_to and postprocess always restore the previously active
\* target: when the call is left, by normal return or because the draw
\* function or a hook panicked and the panic was caught further up, the
\* target stack has the same depth and the same top entry as immediately
\* before the call.
C17_TargetRestored ==
    [][Len(scopes') < Len(scopes) =>
          SameTop(target', scopes[Len(scopes') + 1].entry)]_vars

\* C18: the target stack of a renderer from Renderer::new or
\* Renderer::headless holds at least one entry initially and in every
\* reachable state, so that resolving the current target never fails.
C18_StackNeverEmpty ==
    ctor # "none" => (Len(target) >= 1 /\ drawn.on # "panic")

\* C19: postprocess pushes the target of the postprocessor, runs the draw
\* function, calls the process hook, pops the target and calls the draw
\* hook, in this order; hence the top of the stack is the target of the
\* postprocessor while the draw function or process runs, and the
\* previously active target while the draw hook runs.
C19_PostprocessOrder ==
    /\ [][\A j \in 1..Len(scopes) :
             (scopes[j].op = "postprocess" /\ j <= Len(scopes') /\ scopes'[j] # scopes[j]) =>
                \/ /\ scopes[j].pc = "draw_func" /\ scopes'[j].pc = "process"
                   /\ target' = target
                \/ /\ scopes[j].pc = "process" /\ scopes'[j].pc = "draw"
                   /\ target' = pop_target(target)]_vars
    /\ [](scopes # <<>> /\ Innermost.op = "postprocess" =>
             IF Innermost.pc \in {"draw_func", "process"}
                THEN current(target) = Innermost.target
                ELSE SameTop(target, Innermost.entry))

\* the scopes still open: a postprocess call whose draw hook runs has
\* closed its scope
Open == {j \in 1..Len(scopes) : scopes[j].pc # "draw"}

\* the target a drawing operation is meant for
Meant ==
    IF Open # {} THEN scopes[CHOOSE j \in Open : \A k \in Open : k <= j].target
    ELSE IF ctor = "new" THEN Frame
    ELSE "none"

\* C20: every clear, draw_layer, rect / fill draw, copy_from and
\* copy_rect_from acts on the target of the innermost render_to /
\* postprocess scope that is still open, and on the initial target of the
\* renderer when no scope is open; after an inner scope was left the
\* operations act on the target of the enclosing scope again.
C20_DrawsOnInnermost ==
    drawn # NoDraw => drawn.on = Meant

\* C21: draw, clear, draw again does not leak old geometry: the snapshot
\* that vertices() shows after a clear() followed by k add_rect calls (no
\* writer running concurrently) has exactly 4k vertices, which are the
\* vertices of those k calls in the slots 0 .. 4k-1; no vertex written
\* before the clear is in it.
C21_NoLeakAfterClear ==
    \A t \in Threads :
        (pc[t] = "v_held" /\ hist[Cid(t)].nclears >= 1) =>
            LET c == Cid(t)
                snap == local[t].snap
                k == Cardinality(hist[c].returned)
            IN  /\ Len(snap) = 4 * k
                /\ \A r \in hist[c].resv :
                      /\ r.q \in hist[c].returned
                      /\ r.pos + 4 <= 4 * k
                      /\ \A i \in 0..3 : snap[r.pos + i + 1] = Vertex(r.q, i)
                /\ \A j \in 1..Len(snap) : snap[j].quad \in hist[c].returned

\* two quads were drawn, the layer was cleared, one quad was drawn and the
\* snapshot is held: the second quad of the first frame is still in the
\* backing store, above the logical length
C21_Witness ==
    /\ pc[Main] = "v_held" /\ calls[Main] = 5
    /\ hist[Cid(Main)].nclears = 1
    /\ hist[Cid(Main)].accepted = 3
    /\ Cardinality(hist[Cid(Main)].returned) = 1
    /\ Len(local[Main].snap) = 4
    /\ heap[Cid(Main)].vertex_data.data[5] # NoVertex

\* C22: across add_rect and clear calls the capacity() of a layer never
\* decreases (clear() leaves it unchanged, growth only increases it), and in
\* every reachable state len() <= capacity().
C22_CapacityKept ==
    /\ [][\A h \in Handles :
             /\ capacity(h)' >= capacity(h)
             /\ AVecCapacity(Contents(h).vertex_data)' >= AVecCapacity(Contents(h).vertex_data)
             /\ (\E t \in Threads : pc[t] \in {"cl_gen", "cl_clear"} /\ pc'[t] # pc[t]) =>
                   capacity(h)' = capacity(h)]_vars
    /\ [](\A h \in Handles :
             /\ len(h) <= capacity(h)
             /\ AVecLen(Contents(h).vertex_data) <= AVecCapacity(Contents(h).vertex_data))

\* the buffer grew and was cleared afterwards
C22_Witness ==
    \E h \in Handles :
        /\ capacity(h) > INITIAL_CAPACITY
        /\ len(h) = 0
        /\ hist[layers[h].contents].nclears >= 1
        /\ \A t \in Threads : pc[t] = "idle"

\* C23: drawing makes progress: with threads calling add_rect on the same
\* contents, threads calling the set_* mutators and threads that take and
\* release snapshots, every add_rect call whose generation check passed
\* eventually returns, under fair scheduling.
C23_AddRectReturns ==
    \A t \in Threads : (pc[t] \in {"ar_map", "ar_set", "ar_drop"}) ~> (pc[t] = "idle")

\* a writer waits for the buffer to grow while the other thread holds a
\* snapshot
C23_Witness ==
    /\ pc[1] = "ar_map" /\ pc[2] = "v_held"
    /\ ~AVecFits(heap[Cid(1)].vertex_data, QuadVertices)
    /\ Cid(1) = Cid(2)

\* layers l1 and l2 differ at most in the given cell
SameBut(l1, l2, cell) ==
    /\ cell # "color" => l1.color = l2.color
    /\ cell # "view_matrix" => l1.view_matrix = l2.view_matrix
    /\ cell # "model_matrix" => l1.model_matrix = l2.model_matrix
    /\ cell # "blend" => l1.blend = l2.blend
    /\ l1.contents = l2.contents /\ l1.program = l2.program

\* the value of a cell of a layer
CellOf(l, cell) ==
    CASE cell = "color" -> l.color
      [] cell = "view_matrix" -> l.view_matrix
      [] cell = "model_matrix" -> l.model_matrix
      [] cell = "blend" -> l.blend

\* C24: set_color, set_view_matrix, set_model_matrix and set_blendmode each
\* acquire only the mutex of the one cell they change and change only that
\* cell: the other three cells, the cells of the other layers, the vertex
\* buffer and its length, the dirty flag and the generation are left
\* unchanged; none of them waits on the geometry buffer: a setter can lock
\* its cell exactly when no other thread holds the guard of that cell,
\* whoever holds the buffer or another cell.
C24_SetterFrame ==
    /\ [][\A t \in Threads :
             /\ (pc[t] = "idle" /\ pc'[t] = "set_locked") =>
                   (layers' = layers /\ heap' = heap)
             /\ (pc[t] = "set_locked" /\ pc'[t] = "idle") =>
                   /\ heap' = heap
                   /\ Len(layers') = Len(layers)
                   /\ \A h \in Handles :
                         IF h = local[t].h
                            THEN /\ SameBut(layers'[h], layers[h], local[t].cell)
                                 /\ CellOf(layers'[h], local[t].cell) = local[t].value
                            ELSE layers'[h] = layers[h]]_vars
    /\ [](\A t \in Threads, h \in Handles, cell \in CellNames :
             (pc[t] = "idle") =>
                ((ENABLED CellLock(t, h, cell, CellValue(cell))) <=> (Holding(h, cell) = {})))

\* thread 1 has set the color of the clone and holds the guard of its blend
\* mode while thread 2 holds the snapshot of the contents
C24_Witness ==
    /\ pc[2] = "v_held" /\ calls[2] = 1
    /\ pc[1] = "set_locked" /\ calls[1] = 2
    /\ local[1].h = 2 /\ local[1].cell = "blend"
    /\ layers[2].color = "RED" /\ layers[1].color = "WHITE"
    /\ heap[layers[2].contents].vertex_data.writer = 2

\* C25: popping the target stack when it is empty is a fatal contract
\* violation: pop_target on an empty stack panics instead of returning
\* silently.
C25_PopEmptyPanics ==
    [][(target = <<>> /\ drawn'.op = "pop_target") => drawn'.on = "panic"]_vars

\* C26 as stated: clear() resets the dirty flag together with the buffer and
\* the generation: immediately after clear() returns, with no write in
\* between, the dirty flag is unset, so undirty() returns false.
C26_ClearUnsetsDirty ==
    [][\A t \in Threads :
          (pc[t] = "cl_clear" /\ pc'[t] = "idle") =>
              /\ ~heap'[Cid(t)].dirty
              /\ ~undirty(heap'[Cid(t)]).was
      ]_vars

\* C26, amended: clear() sets the dirty flag while it resets the buffer and
\* the generation: immediately after clear() returns, with no other
\* operation in between, the dirty flag is set, so undirty() returns true,
\* also when the flag was unset before the clear.
C26_ClearSetsDirty ==
    [][\A t \in Threads :
          (pc[t] = "cl_clear" /\ pc'[t] = "idle") =>
              /\ heap'[Cid(t)].dirty
              /\ undirty(heap'[Cid(t)]).was
              /\ AVecLen(heap'[Cid(t)].vertex_data) = 0
              /\ heap'[Cid(t)].generation = 0
      ]_vars

\* a quad was drawn and the layer was cleared: the clear has returned, the
\* quad is still in the backing store and the flag is set
C26_Witness ==
    /\ pc[Main] = "idle" /\ calls[Main] = 3
    /\ hist[1].accepted = 1 /\ hist[1].nclears = 1
    /\ heap[1].vertex_data.data[4] # NoVertex
    /\ AVecLen(heap[1].vertex_data) = 0
    /\ heap[1].dirty

\* C27: an untagged write leaves the current generation of the layer
\* unchanged: after an accepted write tagged G (nonzero), add_rect calls
\* with no generation or with generation 0 keep the stored generation at G,
\* so that a following write tagged H (nonzero, different from G) is still
\* rejected.
C27_UntaggedKeepsGeneration ==
    [][\A t \in Threads :
          LET h == IF pc[t] = "idle" THEN local'[t].h ELSE local[t].h
              c == layers[h].contents
              untagged ==
                  \/ pc[t] = "idle" /\ pc'[t] = "ar_map"
                  \/ pc[t] = "ar_gen" /\ local[t].g = 0 /\ pc'[t] # "ar_gen"
          IN  (untagged /\ heap[c].generation # 0) =>
                  /\ heap'[c].generation = heap[c].generation
                  /\ \A H \in Generations \ {0, heap[c].generation} :
                        ~set_generation(heap'[c], H).ok
      ]_vars

\* no add_rect and no clear is running on contents c
Quiet(c) ==
    \A t \in Threads :
        pc[t] \in {"ar_gen", "ar_map", "ar_set", "ar_drop", "cl_gen", "cl_clear"} => Cid(t) # c

\* C28: the stored generation of a layer describes its contents: whenever
\* no write and no clear is running, it is nonzero only if the buffer holds
\* the vertices of an accepted write tagged with exactly that generation,
\* and zero when the buffer holds no tagged vertex; also after rejected
\* writes and under interleavings of clear() with add_rect.
C28_GenerationDescribesContents ==
    \A c \in AllContents :
        (Quiet(c) /\ heap[c].generation # 0) => heap[c].generation \in hist[c].tags

\* every thread has issued its write and the write has returned or panicked
AllDone == \A t \in Threads : calls[t] = 1 /\ pc[t] = "idle"

\* the writes issued before the threads started
Before(c) == Cardinality({q \in hist[c].returned : q = UntaggedQuad})

\* C29: when several threads each issue one write on an unset layer, with
\* different nonzero generations, then under every interleaving exactly one
\* of the writes is accepted and all the others are rejected.
C29_OneWinner ==
    \A c \in AllContents :
        /\ hist[c].accepted <= Before(c) + 1
        /\ AllDone => /\ hist[c].accepted = Before(c) + 1
                      /\ hist[c].rejected = NumThreads - 1
                      /\ Cardinality(hist[c].returned) = Before(c) + 1
                      /\ Cardinality(hist[c].tags) = 1

\* every write was checked; one was accepted and has stored its quad behind
\* the untagged one after growing the buffer, the others have panicked
C29_Witness ==
    /\ AllDone
    /\ \E c \in AllContents :
          /\ hist[c].accepted = Before(c) + 1
          /\ hist[c].rejected = NumThreads - 1
          /\ AVecLen(heap[c].vertex_data) = 2 * QuadVertices

\* C30: Clone::clone does not carry over the shader program: the clone has
\* no program even when its source was created with one, so draw_layer
\* renders the clone with the default program of the renderer and the source
\* with its own; only clone_with_program gives a clone a program, the one
\* it is called with.
C30_CloneHasNoProgram ==
    /\ [][(Len(layers') > Len(layers) /\ origin'[Len(layers')].by # "new") =>
            LET k == Len(layers')
                src == origin'[k].parent
            IN  /\ layers'[src] = layers[src]
                /\ origin'[k].by = "clone" => layers'[k].program = "None"
                /\ origin'[k].by = "clone_with_program" =>
                      /\ layers'[k].program # "None"
                      /\ \E prog \in LayerPrograms :
                            layers'[k] = clone_with_program(layers[src], heap, prog).layer
          ]_vars
    /\ [](\A h \in Handles : origin[h].by = "clone" => program(h) = "None")
    /\ [](drawn.op = "draw_layer" =>
            LET h == drawn.layer
            IN  /\ origin[h].by = "clone" => drawn.program = DefaultProgram
                /\ program(h) # "None" => drawn.program = program(h))

\* layer 1 was created with a program, layer 2 is its Clone::clone and layer
\* 3 a clone_with_program of layer 2 with another program; layer 2 has just
\* been drawn with the default program
C30_Witness ==
    /\ Len(layers) = 3
    /\ origin[1].by = "new" /\ program(1) = "custom"
    /\ origin[2].by = "clone" /\ origin[2].parent = 1
    /\ origin[3].by = "clone_with_program" /\ origin[3].parent = 2 /\ program(3) = "other"
    /\ drawn = [op |-> "draw_layer", on |-> Frame, layer |-> 2, program |-> DefaultProgram]

====
